---- MODULE Spec2Model ----
(***************************************************************************)
(* Model of src/api/webhook.py: the handling of one POST request by        *)
(* handler.do_POST, from the path check to the response, with every        *)
(* outbound call (Telegram sendMessage / sendDocument, GitHub release      *)
(* query, asset download) recorded in the order the code makes it.         *)
(*                                                                         *)
(* Python strings and byte strings are sequences; a URL is one element of  *)
(* a text.  A JSON object / dict is a record whose fields are the keys     *)
(* that are present.  In Spec the caller's connection stays writable       *)
(* while the handler answers; SpecFault adds the fault of that write;      *)
(* ChunkSpec applies send_telegram_message_safe to texts of its own.       *)
(***************************************************************************)
EXTENDS Integers, Sequences, FiniteSets, TLC

VARIABLES req, pc, content_length, body, bodyRead, data, statuses, wfile,
          calls, sleeps, attempt, assets, matched_asset, listings,
          content_bytes, uploaded, raised

vars == <<req, pc, content_length, body, bodyRead, data, statuses, wfile,
          calls, sleeps, attempt, assets, matched_asset, listings,
          content_bytes, uploaded, raised>>

(***************************************************************************)
(* Configuration and constants (webhook.py lines 16-31).                   *)
(***************************************************************************)
\* GITHUB_WEBHOOK_SECRET, as a key of the digest below
SECRET_TOKEN == 7
\* some other key, for signatures made without the secret
OtherSecret == SECRET_TOKEN + 4
MAX_CONTENT_LENGTH == 10 * 1024 * 1024
\* TELEGRAM_MAX_MESSAGE_LENGTH is 4000 in the source; texts here are scaled
\* down (one element per label, field character or URL), and so is the limit
ScaledTextLimit == 40
TELEGRAM_MAX_MESSAGE_LENGTH == ScaledTextLimit
MAX_RETRY_ATTEMPTS == 4
TELEGRAM_MAX_UPLOAD_BYTES == 20 * 1024 * 1024

\* Python None, for the variables that hold a dict or None
None == [isNone |-> TRUE]

Min(a, b) == IF a < b THEN a ELSE b

Take(s, n) == SubSeq(s, 1, Min(n, Len(s)))

Drop(s, n) == SubSeq(s, n + 1, Len(s))

\* dict.get(key, default)
Get(d, key, default) == IF key \in DOMAIN d THEN d[key] ELSE default

(***************************************************************************)
(* The signature: 'sha256=' + hmac.new(secret, body, sha256).hexdigest().  *)
(* The digest is a keyed 8-bit polynomial hash of the body bytes; the      *)
(* header is the sequence <<"sha256=", hex digit, hex digit>>.             *)
(***************************************************************************)
DigestWidth == 16 * 16

RECURSIVE Hmac(_, _)
Hmac(key, msg) ==
    IF msg = <<>> THEN (key * 31 + 5) % DigestWidth
    ELSE (Hmac(key, Take(msg, Len(msg) - 1)) * 31 + msg[Len(msg)] + 1) % DigestWidth

HexDigits == <<"0", "1", "2", "3", "4", "5", "6", "7",
               "8", "9", "a", "b", "c", "d", "e", "f">>

HexDigest(n) == <<HexDigits[(n \div 16) + 1], HexDigits[(n % 16) + 1]>>

ExpectedSignature(secret, b) == <<"sha256=">> \o HexDigest(Hmac(secret, b))

\* a header character outside ASCII (the header is decoded as latin-1)
NonAsciiChar == "u00e9"

IsAscii(s) == \A i \in 1..Len(s) : s[i] # NonAsciiChar

\* hmac.compare_digest on two str: TypeError if either holds a non-ASCII
\* character, otherwise equality
CompareDigestRaises(a, b) == ~IsAscii(a) \/ ~IsAscii(b)

\* variant: a comparison that accepts every header
CompareDigestBug(a, b) == TRUE

CompareDigest(a, b) == a = b

(***************************************************************************)
(* Event payloads and their JSON encoding.                                 *)
(***************************************************************************)
ReleaseUrl == "https://gh/r/releases/v1"

RepoUrl == "https://gh/r"

SenderUrl == "https://gh/u"

FullRelease(notes) ==
    [id |-> 1, tag_name |-> <<"v", "1">>, name |-> <<"n">>,
     html_url |-> <<ReleaseUrl>>, published_at |-> <<"d">>, body |-> notes]

FullEvent(action, notes) ==
    [action |-> action,
     repository |-> [full_name |-> <<"o", "/", "r">>, html_url |-> <<RepoUrl>>],
     release |-> FullRelease(notes),
     sender |-> [login |-> <<"u">>, html_url |-> <<SenderUrl>>]]

\* release notes long enough for the summary to be split
LongNotes ==
    <<"a", "a", "a", "a", "\n", "\n", "*", "c", " ">>

\* The JSON documents of the model.  t = "obj": a JSON object; "list": a
\* JSON value that is no object.
Documents ==
    << [t |-> "obj", v |-> FullEvent("created", <<"x">>)],
       [t |-> "obj", v |-> FullEvent("published", <<"x">>)],
       [t |-> "obj", v |-> FullEvent("published", LongNotes)],
       \* published, release without id, tag_name '' and no html_url
       [t |-> "obj", v |-> [action |-> "published",
                            repository |-> [full_name |-> <<"o", "/", "r">>],
                            release |-> [tag_name |-> <<>>, body |-> <<"x">>],
                            sender |-> [login |-> <<"u">>]]],
       \* published, "release": null
       [t |-> "obj", v |-> [action |-> "published", release |-> None]],
       \* an object without "action"
       [t |-> "obj", v |-> [zen |-> <<"z">>]],
       [t |-> "list", v |-> <<>>] >>

\* bytes of the i-th document: an opening byte, the document, a closing byte
Encode(i) == <<1, 10 + i, 2>>

\* json.loads(body): the document, or t = "error" for what is not the
\* complete encoding of one (empty, truncated, other bytes)
JsonLoads(b) ==
    IF Len(b) = 3 /\ b[1] = 1 /\ b[3] = 2 /\ (b[2] - 10) \in 1..Len(Documents)
    THEN Documents[b[2] - 10]
    ELSE [t |-> "error", v |-> <<>>]

(***************************************************************************)
(* The request: path, X-Hub-Signature-256 header, Content-Length header    *)
(* and the bytes the client sends.                                         *)
(***************************************************************************)
valid_paths == {"/api/webhook", "/webhook"}

Paths == valid_paths \cup {"/other"}

SentBodies == {Encode(i) : i \in 1..Len(Documents)} \cup {<<>>, <<9>>}

\* headers.get('X-Hub-Signature-256'): None, or the header's characters
SignatureHeaders(sent) ==
    {[present |-> FALSE, v |-> <<>>], [present |-> TRUE, v |-> <<>>],
     [present |-> TRUE, v |-> <<"sha256=", NonAsciiChar>>],
     [present |-> TRUE, v |-> ExpectedSignature(SECRET_TOKEN, sent)],
     [present |-> TRUE, v |-> ExpectedSignature(SECRET_TOKEN, <<>>)],
     [present |-> TRUE, v |-> ExpectedSignature(SECRET_TOKEN, Take(sent, 2))],
     [present |-> TRUE, v |-> ExpectedSignature(OtherSecret, sent)],
     [present |-> TRUE, v |-> HexDigest(Hmac(SECRET_TOKEN, sent))]}

\* headers.get('Content-Length', '0'): absent, not a number, or a number
\* (none, a truncating one, the length sent, the ceiling, one more)
ContentLengths(sent) ==
    {[kind |-> "absent", n |-> 0], [kind |-> "garbage", n |-> 0]}
    \cup {[kind |-> "int", n |-> n] :
            n \in {0, 2, Len(sent), MAX_CONTENT_LENGTH, MAX_CONTENT_LENGTH + 1}}

RequestsTo(paths, bodies) ==
    UNION {{[path |-> p, signature_header |-> s, cl |-> c, sent |-> b] :
              p \in paths, s \in SignatureHeaders(b), c \in ContentLengths(b)} :
           b \in bodies}

\* every body to the canonical path; to the alias and to an unknown path,
\* the empty body, the 'created' event and the short 'published' event
Requests ==
    RequestsTo({"/api/webhook"}, SentBodies)
    \cup RequestsTo({"/webhook", "/other"}, {<<>>, Encode(1), Encode(2)})

Init ==
    /\ req \in Requests
    /\ pc = "PathCheck"
    /\ content_length = 0
    /\ body = <<>>
    /\ bodyRead = FALSE
    /\ data = [t |-> "unset", v |-> <<>>]
    /\ statuses = <<>>
    /\ wfile = <<>>
    /\ calls = <<>>
    /\ sleeps = 0
    /\ attempt = 0
    /\ assets = <<>>
    /\ matched_asset = None
    /\ listings = <<>>
    /\ content_bytes = None
    /\ uploaded = FALSE
    /\ raised = FALSE

\* The messages passed to send_error (lines 49-173), character by character;
\* a character outside ASCII is written "u" + its code point in hex.
MissingSignature == <<"u7f3a", "u5c11", "u7b7e", "u540d">>

InvalidSignature == <<"u7b7e", "u540d", "u65e0", "u6548">>

InvalidPath(path) == <<"u8def", "u5f84", "u65e0", "u6548", ":", " ", path>>

BodyTooLarge == <<"u8bf7", "u6c42", "u4f53", "u8fc7", "u5927">>

InvalidJson == <<"u65e0", "u6548", "u7684", " ", "J", "S", "O", "N">>

\* f"...: {e}", the text of the exception as one element
ServerError == <<"u670d", "u52a1", "u5668", "u5185", "u90e8", "u9519", "u8bef", ":", " ", "e">>

CodePoint ==
    [u00e9 |-> 233,
     u4f53 |-> 20307, u5185 |-> 20869, u52a1 |-> 21153, u540d |-> 21517, u5668 |-> 22120,
     u5927 |-> 22823, u5c11 |-> 23569, u5f84 |-> 24452, u6548 |-> 25928, u65e0 |-> 26080,
     u670d |-> 26381, u6c42 |-> 27714, u7684 |-> 30340, u7b7e |-> 31614, u7f3a |-> 32570,
     u8bef |-> 35823, u8bf7 |-> 35831, u8def |-> 36335, u8fc7 |-> 36807, u90e8 |-> 37096,
     u9519 |-> 38169]

\* can str.encode('latin-1', 'strict') encode the character
IsLatin1(c) == c \in DOMAIN CodePoint => CodePoint[c] < 256

\* BaseHTTPRequestHandler.send_response_only encodes the status line
\* "HTTP/1.0 <code> <message>" with latin-1, strict: UnicodeEncodeError for
\* a message with a character above U+00FF, before anything is written
StatusLineRaises(message) == \E i \in 1..Len(message) : ~IsLatin1(message[i])

\* the status line as it is written to the connection
StatusLine(code) == "HTTP " \o ToString(code)

\* variant: send_error without the return that follows it
SendErrorBug(code, message) ==
    /\ statuses' = Append(statuses, code)
    /\ UNCHANGED <<wfile, raised>>
    /\ pc' = "Resolve"

\* self.send_error(code, message); return.  statuses records the code of
\* every send_response / send_error call of the handler, wfile what reaches
\* the connection.  When the status line cannot be encoded the exception
\* leaves do_POST (lines 49-81 are outside the try block, line 173 is in
\* the except clause) and nothing is written.
SendError(code, message) ==
    /\ statuses' = Append(statuses, code)
    /\ IF StatusLineRaises(message)
       THEN raised' = TRUE /\ UNCHANGED wfile
       ELSE wfile' = Append(wfile, StatusLine(code)) /\ UNCHANGED raised
    /\ pc' = "done"

readVars == <<content_length, body, bodyRead>>

outVars == <<calls, sleeps>>

resolveVars == <<attempt, assets, matched_asset, listings>>

deliverVars == <<content_bytes, uploaded>>

(***************************************************************************)
(* do_POST, lines 47-82: path, signature header, size, digest, JSON.       *)
(***************************************************************************)
PathCheck ==
    /\ pc = "PathCheck"
    /\ IF req.path \notin valid_paths
       THEN SendError(404, InvalidPath(req.path))
       ELSE pc' = "SignatureHeader" /\ UNCHANGED <<statuses, wfile, raised>>
    /\ UNCHANGED <<req, readVars, data, outVars, resolveVars, deliverVars>>

\* `if not signature_header`: None or ''
SignatureHeader ==
    /\ pc = "SignatureHeader"
    /\ IF ~req.signature_header.present \/ req.signature_header.v = <<>>
       THEN SendError(403, MissingSignature)
       ELSE pc' = "SizeGuard" /\ UNCHANGED <<statuses, wfile, raised>>
    /\ UNCHANGED <<req, readVars, data, outVars, resolveVars, deliverVars>>

\* int(headers.get('Content-Length', '0')), 0 when that raises
ParseContentLength(cl) == IF cl.kind = "int" THEN cl.n ELSE 0

\* variant: a ceiling that is off by one
TooLargeBug(n) == n > MAX_CONTENT_LENGTH + 1

\* line 65
TooLarge(n) == n > MAX_CONTENT_LENGTH

SizeGuard ==
    /\ pc = "SizeGuard"
    /\ content_length' = ParseContentLength(req.cl)
    /\ IF TooLarge(content_length')
       THEN SendError(413, BodyTooLarge)
       ELSE pc' = "Authenticate" /\ UNCHANGED <<statuses, wfile, raised>>
    /\ UNCHANGED <<req, body, bodyRead, data, outVars, resolveVars, deliverVars>>

\* self.rfile.read(content_length): at most content_length of the bytes sent
Read(sent, n) == Take(sent, n)

\* lines 70-75; a TypeError of compare_digest is caught nowhere: do_POST
\* ends without a response
Authenticate ==
    /\ pc = "Authenticate"
    /\ body' = Read(req.sent, content_length)
    /\ bodyRead' = TRUE
    /\ LET expected_signature == ExpectedSignature(SECRET_TOKEN, body')
       IN  IF CompareDigestRaises(req.signature_header.v, expected_signature)
           THEN raised' = TRUE /\ pc' = "done" /\ UNCHANGED <<statuses, wfile>>
           ELSE IF ~CompareDigest(req.signature_header.v, expected_signature)
                THEN SendError(403, InvalidSignature)
                ELSE pc' = "Parse" /\ UNCHANGED <<statuses, wfile, raised>>
    /\ UNCHANGED <<req, content_length, data, outVars, resolveVars, deliverVars>>

Parse ==
    /\ pc = "Parse"
    /\ LET d == JsonLoads(body)
       IN  IF d.t = "error"
           THEN SendError(400, InvalidJson) /\ UNCHANGED data
           ELSE data' = d /\ pc' = "Filter" /\ UNCHANGED <<statuses, wfile, raised>>
    /\ UNCHANGED <<req, readVars, outVars, resolveVars, deliverVars>>

(***************************************************************************)
(* Text: splitlines, strip, safe_markdown, send_telegram_message_safe.     *)
(***************************************************************************)
Whitespace == {" ", "\n"}

\* index of the first "\n" of t, 0 if there is none
FirstNewline(t) ==
    IF \E i \in 1..Len(t) : t[i] = "\n"
    THEN CHOOSE i \in 1..Len(t) : t[i] = "\n" /\ \A j \in 1..(i - 1) : t[j] # "\n"
    ELSE 0

\* str.splitlines(): the lines without their "\n"; no last empty line
RECURSIVE SplitLines(_)
SplitLines(t) ==
    IF t = <<>> THEN <<>>
    ELSE LET i == FirstNewline(t)
         IN  IF i = 0 THEN <<t>>
             ELSE <<Take(t, i - 1)>> \o SplitLines(Drop(t, i))

RECURSIVE LStrip(_)
LStrip(t) == IF t # <<>> /\ t[1] \in Whitespace THEN LStrip(Tail(t)) ELSE t

RECURSIVE RStrip(_)
RStrip(t) ==
    IF t # <<>> /\ t[Len(t)] \in Whitespace THEN RStrip(Take(t, Len(t) - 1)) ELSE t

\* str.strip()
Strip(t) == LStrip(RStrip(t))

\* [line[i:i+limit] for i in range(0, len(line), limit)]
RECURSIVE HardSplit(_, _)
HardSplit(line, limit) ==
    IF line = <<>> THEN <<>>
    ELSE <<Take(line, limit)>> \o HardSplit(Drop(line, limit), limit)

\* the loop of lines 244-256 over the lines left, with the messages and the
\* current segment so far; then lines 257-258
RECURSIVE ChunkLoop(_, _, _, _)
ChunkLoop(lines, messages, current, limit) ==
    IF lines = <<>>
    THEN IF Strip(current) # <<>> THEN Append(messages, Strip(current)) ELSE messages
    ELSE LET line == Head(lines)
             closed == IF current # <<>> THEN Append(messages, Strip(current))
                       ELSE messages
         IN  IF Len(current) + Len(line) + 1 <= limit
             THEN ChunkLoop(Tail(lines), messages, current \o line \o <<"\n">>, limit)
             ELSE IF Len(line) > limit
                  THEN ChunkLoop(Tail(lines), closed \o HardSplit(line, limit), <<>>, limit)
                  ELSE ChunkLoop(Tail(lines), closed, line \o <<"\n">>, limit)

\* the "part i of n" marker
Prefix(i, n) == <<"#", ToString(i), "/", ToString(n), "\n", "\n">>

\* variant: a text of exactly the limit is chunked as well
SegmentsBug(text, limit) ==
    IF Len(text) < limit THEN <<text>>
    ELSE LET messages == ChunkLoop(SplitLines(text), <<>>, <<>>, limit)
         IN  [i \in 1..Len(messages) |->
                (IF Len(messages) > 1 THEN Prefix(i, Len(messages)) ELSE <<>>)
                \o messages[i]]

\* the texts send_telegram_message_safe passes to send_telegram_message
Segments(text, limit) ==
    IF Len(text) <= limit THEN <<text>>
    ELSE LET messages == ChunkLoop(SplitLines(text), <<>>, <<>>, limit)
         IN  [i \in 1..Len(messages) |->
                (IF Len(messages) > 1 THEN Prefix(i, Len(messages)) ELSE <<>>)
                \o messages[i]]

EscapeChar(c) ==
    IF c = "backtick" THEN "apostrophe"
    ELSE IF c = "*" THEN "U+00D7"
    ELSE IF c = "[" THEN "("
    ELSE IF c = "]" THEN ")"
    ELSE c

safe_markdown(text) == [i \in 1..Len(text) |-> EscapeChar(text[i])]

\* a dict, as opposed to None
IsDict(x) == "isNone" \notin DOMAIN x

\* the summary of lines 104-111; each fixed label is one element
Message(repo, release, sender) ==
    <<"T", "\n", "\n">>
    \o <<"R", "[">> \o Get(repo, "full_name", <<"?">>) \o <<"]", "(">>
    \o Get(repo, "html_url", <<>>) \o <<")", "\n">>
    \o <<"V", "[">> \o Get(release, "tag_name", <<"?">>) \o <<"]", "(">>
    \o Get(release, "html_url", <<>>) \o <<")", "-">> \o Get(release, "name", <<>>)
    \o <<"\n">>
    \o <<"S", "[">> \o Get(sender, "login", <<>>) \o <<"]", "(">>
    \o Get(sender, "html_url", <<>>) \o <<")", "\n">>
    \o <<"D">> \o Get(release, "published_at", <<>>) \o <<"\n", "\n">>
    \o Get(release, "body", <<>>)

\* variant: a notice without the release page URL
NoAssetMsgBug(release) ==
    <<"W", "\n", "\n", "[">> \o Get(release, "tag_name", <<"?">>) \o <<"P", "]", "(", ")">>

\* the notice of lines 155-163
NoAssetMsg(release) ==
    <<"W", "\n", "\n", "[">> \o Get(release, "tag_name", <<"?">>) \o <<"P", "]", "(">>
    \o Get(release, "html_url", <<>>) \o <<")">>

\* asset_browser_url or asset.get('url'), formatted into the text
FallbackLink(asset) ==
    IF Get(asset, "browser_download_url", <<>>) # <<>>
    THEN asset.browser_download_url
    ELSE IF Get(asset, "url", <<>>) # <<>> THEN asset.url ELSE <<"None">>

\* the fallback of lines 229-232
FallbackMsg(asset) ==
    <<"F", "backtick">> \o safe_markdown(Get(asset, "name", <<"?">>)) \o <<"backtick", "\n", "\n", "M", "\n">>
    \o FallbackLink(asset)

\* one call of send_telegram_message: the outcome is returned, never raised
SendMessageCall(text, ok) == [kind |-> "sendMessage", text |-> text, ok |-> ok]

\* variant: an acknowledgment that reports a failed outbound call
Respond200Bug ==
    LET code == IF \E i \in 1..Len(calls) : ~calls[i].ok THEN 500 ELSE 200
    IN  /\ statuses' = Append(statuses, code)
        /\ wfile' = wfile \o <<StatusLine(code), "OK">>
        /\ pc' = "done"

\* self.send_response(200); self.end_headers(); self.wfile.write(b'OK'),
\* the three writes succeeding
Respond200 ==
    /\ statuses' = Append(statuses, 200)
    /\ wfile' = wfile \o <<StatusLine(200), "OK">>
    /\ pc' = "done"

(***************************************************************************)
(* do_POST, lines 84-112: filter by action, build and send the summary.    *)
(* An exception raised in the try block is answered with 500 (170-173).    *)
(***************************************************************************)
\* variant: no action is filtered out
IgnoredBug(action) == FALSE

\* line 86
Ignored(action) == action # "published"

Filter ==
    /\ pc = "Filter"
    /\ IF data.t # "obj"
       THEN SendError(500, ServerError)
       ELSE IF Ignored(Get(data.v, "action", "None"))
            THEN Respond200 /\ UNCHANGED raised
            ELSE pc' = "Notify" /\ UNCHANGED <<statuses, wfile, raised>>
    /\ UNCHANGED <<req, readVars, data, outVars, resolveVars, deliverVars>>

repo == Get(data.v, "repository", <<>>)

release == Get(data.v, "release", <<>>)

sender == Get(data.v, "sender", <<>>)

\* lines 94-112.  Each segment is one send_telegram_message call whose result
\* is discarded; the 0.3 s pause between segments changes no state.
Notify ==
    /\ pc = "Notify"
    /\ IF ~(IsDict(repo) /\ IsDict(release) /\ IsDict(sender))
       THEN SendError(500, ServerError) /\ UNCHANGED calls
       ELSE LET segs == Segments(Message(repo, release, sender), TELEGRAM_MAX_MESSAGE_LENGTH)
            IN  /\ \E oks \in [1..Len(segs) -> BOOLEAN] :
                     calls' = calls \o [i \in 1..Len(segs) |-> SendMessageCall(segs[i], oks[i])]
                /\ pc' = "Resolve"
                /\ UNCHANGED <<statuses, wfile, raised>>
    /\ UNCHANGED <<req, readVars, data, sleeps, resolveVars, deliverVars>>

(***************************************************************************)
(* Release assets and ANY_KERNEL_PATTERN.                                  *)
(***************************************************************************)
UpperToLower ==
    [A |-> "a", N |-> "n", Y |-> "y", K |-> "k", E |-> "e", R |-> "r", L |-> "l"]

\* re.IGNORECASE on the letters of the pattern
Lower(c) == IF c \in DOMAIN UpperToLower THEN UpperToLower[c] ELSE c

\* does word occur in name at index i, ignoring case
OccursAt(name, word, i) ==
    /\ i + Len(word) - 1 <= Len(name)
    /\ \A k \in 1..Len(word) : Lower(name[i + k - 1]) = word[k]

\* re.compile(r'any.*kernel', re.IGNORECASE).search(name): "any", then any
\* characters but a newline, then "kernel"
AnyKernelSearch(name) ==
    \E i \in 1..Len(name), j \in 1..Len(name) :
        /\ OccursAt(name, <<"a", "n", "y">>, i)
        /\ j >= i + 3
        /\ OccursAt(name, <<"k", "e", "r", "n", "e", "l">>, j)
        /\ \A k \in (i + 3)..(j - 1) : name[k] # "\n"

AnyKernelName == <<"A", "n", "y", "K", "e", "r", "n", "e", "l", "3", ".", "z", "i", "p">>

StarName == <<"a", "n", "y", "*", "K", "E", "R", "N", "E", "L">>

ChangelogName == <<"c", "h", ".", "t", "x", "t">>

ReversedName == <<"k", "e", "r", "n", "e", "l", "-", "a", "n", "y">>

ApiUrl(n) == <<"https://api.gh/assets/" \o ToString(n)>>

BrowserUrl(n) == <<"https://gh/download/" \o ToString(n)>>

Asset(n, name) ==
    [name |-> name, size |-> n, url |-> ApiUrl(n), browser_download_url |-> BrowserUrl(n)]

\* what fetch_release_assets can return when it queries: None (the query
\* or its decoding failed) or the 'assets' list of the release
ApiResults ==
    { [ok |-> FALSE, assets |-> <<>>],
      [ok |-> TRUE, assets |-> <<>>],
      [ok |-> TRUE, assets |-> <<Asset(1, ChangelogName), [size |-> 2],
                                 Asset(3, ReversedName)>>],
      [ok |-> TRUE, assets |-> <<Asset(1, ChangelogName), Asset(4, AnyKernelName),
                                 Asset(5, StarName)>>],
      [ok |-> TRUE, assets |-> <<[name |-> StarName, url |-> ApiUrl(6)],
                                 Asset(4, AnyKernelName)>>],
      [ok |-> TRUE, assets |-> <<[name |-> AnyKernelName,
                                  browser_download_url |-> BrowserUrl(7)]>>],
      [ok |-> TRUE, assets |-> <<[name |-> AnyKernelName]>>] }

\* variant: the scan keeps the last matching asset of the listing
FirstMatchBug(as) ==
    LET m == {j \in 1..Len(as) :
                LET an == Get(as[j], "name", <<>>) IN an # <<>> /\ AnyKernelSearch(an)}
    IN  IF m = {} THEN None ELSE as[CHOOSE j \in m : \A k \in m : k <= j]

\* lines 136-141: the first asset of the listing whose name is non-empty
\* and matches, None if there is none
RECURSIVE FirstMatch(_)
FirstMatch(as) ==
    IF as = <<>> THEN None
    ELSE LET an == Get(Head(as), "name", <<>>)
         IN  IF an # <<>> /\ AnyKernelSearch(an) THEN Head(as) ELSE FirstMatch(Tail(as))

\* fetch_release_assets, lines 300-306: the URL queried; "none" when the
\* event has neither a release id nor a tag name (no request is made)
ReleaseQueryBy(release_id, tag_name) ==
    IF release_id # 0 THEN "id" ELSE IF tag_name # <<>> THEN "tag" ELSE "none"

\* variant: a failed query leaves the previous listing in place
AssetsOrEmptyBug(api) == IF api.ok THEN api.assets ELSE assets

\* lines 121-125: None counts as an empty listing
AssetsOrEmpty(api) == IF api.ok THEN api.assets ELSE <<>>

\* variant: a loop with one attempt more
MoreAttemptsExtraBug(k) == k <= MAX_RETRY_ATTEMPTS

\* variant: a loop that is one attempt short
MoreAttemptsBug(k) == k < MAX_RETRY_ATTEMPTS - 1

\* `for attempt in range(1, MAX_RETRY_ATTEMPTS + 1)` with the test of line
\* 146: is there another attempt after attempt k
MoreAttempts(k) == k < MAX_RETRY_ATTEMPTS

(***************************************************************************)
(* do_POST, lines 118-148: one attempt of the retry loop: query, scan,     *)
(* and the delay before the next attempt.                                  *)
(***************************************************************************)
QueryAttempt ==
    /\ pc = "Resolve"
    /\ attempt' = attempt + 1
    /\ LET by == ReleaseQueryBy(Get(release, "id", 0), Get(release, "tag_name", <<"?">>))
       IN  \E api \in (IF by = "none" THEN {[ok |-> FALSE, assets |-> <<>>]} ELSE ApiResults) :
             /\ calls' = IF by = "none" THEN calls
                         ELSE Append(calls, [kind |-> "releaseQuery", by |-> by, ok |-> api.ok])
             /\ assets' = AssetsOrEmpty(api)
             /\ listings' = Append(listings, api)
             /\ matched_asset' = FirstMatch(assets')
             /\ IF matched_asset' # None
                THEN pc' = "DownloadApi" /\ UNCHANGED sleeps
                ELSE IF MoreAttempts(attempt')
                     THEN pc' = "Resolve" /\ sleeps' = sleeps + 1
                     ELSE pc' = "NoAsset" /\ UNCHANGED sleeps
    /\ UNCHANGED <<req, readVars, data, statuses, wfile, deliverVars, raised>>

\* lines 153-164: the notice
NoAsset ==
    /\ pc = "NoAsset"
    /\ \E ok \in BOOLEAN : calls' = Append(calls, SendMessageCall(NoAssetMsg(release), ok))
    /\ pc' = "Respond"
    /\ UNCHANGED <<req, readVars, data, statuses, wfile, sleeps, resolveVars, deliverVars,
                   raised>>

(***************************************************************************)
(* process_single_asset, lines 178-233, with download_asset_content and    *)
(* send_telegram_document_bytes.                                           *)
(***************************************************************************)
asset_api_url == Get(matched_asset, "url", <<>>)

asset_browser_url == Get(matched_asset, "browser_download_url", <<>>)

\* the lengths a downloaded content can have
ContentSizes == {0, TELEGRAM_MAX_UPLOAD_BYTES, TELEGRAM_MAX_UPLOAD_BYTES + 1}

\* what one download request yields: None (it raised) or the content
DownloadResults(url) == {None} \cup {[len |-> n, from |-> url] : n \in ContentSizes}

DownloadCall(via, url, result) ==
    [kind |-> "download", via |-> via, url |-> url, ok |-> result # None]

\* lines 191-196 and download_asset_content: the API URL if the asset has
\* one, else the browser URL, else RuntimeError; any exception gives None
DownloadApi ==
    /\ pc = "DownloadApi"
    /\ IF asset_api_url # <<>>
       THEN \E r \in DownloadResults(asset_api_url) :
              /\ calls' = Append(calls, DownloadCall("api", asset_api_url, r))
              /\ content_bytes' = r
       ELSE IF asset_browser_url # <<>>
       THEN \E r \in DownloadResults(asset_browser_url) :
              /\ calls' = Append(calls, DownloadCall("browser", asset_browser_url, r))
              /\ content_bytes' = r
       ELSE content_bytes' = None /\ UNCHANGED calls
    /\ pc' = IF content_bytes' = None /\ asset_browser_url # <<>>
             THEN "DownloadBrowser" ELSE "Upload"
    /\ UNCHANGED <<req, readVars, data, statuses, wfile, sleeps, resolveVars, uploaded, raised>>

\* lines 199-208
DownloadBrowser ==
    /\ pc = "DownloadBrowser"
    /\ \E r \in DownloadResults(asset_browser_url) :
         /\ calls' = Append(calls, DownloadCall("browser", asset_browser_url, r))
         /\ content_bytes' = r
    /\ pc' = "Upload"
    /\ UNCHANGED <<req, readVars, data, statuses, wfile, sleeps, resolveVars, uploaded, raised>>

\* variant: a strict comparison with the ceiling
FitsUploadBug(size_b) == size_b < TELEGRAM_MAX_UPLOAD_BYTES

\* line 213
FitsUpload(size_b) == size_b <= TELEGRAM_MAX_UPLOAD_BYTES

\* line 211: `if content_bytes` (not None and not empty)
HasContent(c) == c # None /\ c.len > 0

\* line 216
Description(asset) ==
    Get(release, "tag_name", <<>>) \o <<"A">> \o Get(asset, "name", <<>>)

\* send_telegram_document_bytes returns True or False; any other exception
\* is caught by line 223
UploadOutcomes == {"ok", "failed", "raised"}

\* variant: go on to the fallback whatever the outcome of the upload
AfterUploadFallbackBug(o) == "Fallback"

\* variant: return after the upload whatever its outcome
AfterUploadBug(o) == "Respond"

\* lines 218-224: return after a successful upload, else go on to the fallback
AfterUpload(o) == IF o = "ok" THEN "Respond" ELSE "Fallback"

\* lines 211-226: upload if there is content within the ceiling
Upload ==
    /\ pc = "Upload"
    /\ IF HasContent(content_bytes) /\ FitsUpload(content_bytes.len)
       THEN \E o \in UploadOutcomes :
              /\ calls' = Append(calls,
                     [kind |-> "sendDocument", filename |-> Get(matched_asset, "name", <<>>),
                      bytes |-> content_bytes, caption |-> Description(matched_asset),
                      outcome |-> o, ok |-> o = "ok"])
              /\ uploaded' = (o = "ok")
              /\ pc' = AfterUpload(o)
       ELSE pc' = "Fallback" /\ UNCHANGED <<calls, uploaded>>
    /\ UNCHANGED <<req, readVars, data, statuses, wfile, sleeps, resolveVars, content_bytes,
                   raised>>

\* lines 229-233
Fallback ==
    /\ pc = "Fallback"
    /\ \E ok \in BOOLEAN : calls' = Append(calls, SendMessageCall(FallbackMsg(matched_asset), ok))
    /\ pc' = "Respond"
    /\ UNCHANGED <<req, readVars, data, statuses, wfile, sleeps, resolveVars, deliverVars,
                   raised>>

\* lines 166-168
Respond ==
    /\ pc = "Respond"
    /\ Respond200
    /\ UNCHANGED <<req, readVars, data, outVars, resolveVars, deliverVars, raised>>

Next ==
    \/ PathCheck
    \/ SignatureHeader
    \/ SizeGuard
    \/ Authenticate
    \/ Parse
    \/ Filter
    \/ Notify
    \/ QueryAttempt
    \/ NoAsset
    \/ DownloadApi
    \/ DownloadBrowser
    \/ Upload
    \/ Fallback
    \/ Respond

Spec == Init /\ [][Next]_vars

(***************************************************************************)
(* The same handler when the caller's connection can fail while the 200    *)
(* acknowledgment is written (lines 89-91 and 166-168, inside the try      *)
(* block of line 84): the exception is caught at line 170 and answered     *)
(* with send_error(500).                                                   *)
(***************************************************************************)
\* send_response(200) was called; end_headers() raised, or it wrote the
\* status line and wfile.write(b'OK') raised; lines 170-173 then call
\* send_error(500), whose own write to that connection may raise
WriteFault ==
    \E flushed \in BOOLEAN :
        LET written == IF flushed THEN Append(wfile, StatusLine(200)) ELSE wfile
        IN  /\ statuses' = statuses \o <<200, 500>>
            /\ IF StatusLineRaises(ServerError)
               THEN raised' = TRUE /\ wfile' = written
               ELSE raised' \in BOOLEAN /\ wfile' = Append(written, StatusLine(500))
            /\ pc' = "done"

\* lines 86-92 with the fault
FilterFault ==
    /\ pc = "Filter"
    /\ data.t = "obj"
    /\ Ignored(Get(data.v, "action", "None"))
    /\ WriteFault
    /\ UNCHANGED <<req, readVars, data, outVars, resolveVars, deliverVars>>

\* lines 166-168 with the fault
RespondFault ==
    /\ pc = "Respond"
    /\ WriteFault
    /\ UNCHANGED <<req, readVars, data, outVars, resolveVars, deliverVars>>

NextFault ==
    \/ Next
    \/ FilterFault
    \/ RespondFault

SpecFault == Init /\ [][NextFault]_vars

(***************************************************************************)
(* send_telegram_message_safe (lines 238-263) applied to a text of its     *)
(* own: the text is in req.text, the sends are recorded in calls.          *)
(***************************************************************************)
\* a line of n characters
Run(n) == [i \in 1..n |-> "a"]

\* the pieces texts are made of: single characters, and runs of about half
\* the limit, just under the limit and over the limit
Pieces ==
    { <<"a">>, <<" ">>, <<"\n">>,
      Run(TELEGRAM_MAX_MESSAGE_LENGTH \div 2),
      Run(TELEGRAM_MAX_MESSAGE_LENGTH - 2),
      Run(TELEGRAM_MAX_MESSAGE_LENGTH + 1) }

MaxPieces == 4

RECURSIVE Concat(_)
Concat(ts) == IF ts = <<>> THEN <<>> ELSE Head(ts) \o Concat(Tail(ts))

Texts == {Concat(ps) : ps \in UNION {[1..n -> Pieces] : n \in 0..MaxPieces}}

InitChunk ==
    /\ req \in {[text |-> t] : t \in Texts}
    /\ pc = "SendSafe"
    /\ content_length = 0
    /\ body = <<>>
    /\ bodyRead = FALSE
    /\ data = [t |-> "unset", v |-> <<>>]
    /\ statuses = <<>>
    /\ wfile = <<>>
    /\ calls = <<>>
    /\ sleeps = 0
    /\ attempt = 0
    /\ assets = <<>>
    /\ matched_asset = None
    /\ listings = <<>>
    /\ content_bytes = None
    /\ uploaded = FALSE
    /\ raised = FALSE

\* one call of send_telegram_message_safe: a send per segment, in order;
\* the messaging API is reachable for all of them or for none
SendSafe ==
    /\ pc = "SendSafe"
    /\ LET segs == Segments(req.text, TELEGRAM_MAX_MESSAGE_LENGTH)
       IN  \E ok \in BOOLEAN :
             calls' = calls \o [i \in 1..Len(segs) |-> SendMessageCall(segs[i], ok)]
    /\ pc' = "done"
    /\ UNCHANGED <<req, readVars, data, statuses, wfile, sleeps, resolveVars, deliverVars,
                   raised>>

NextChunk == SendSafe

ChunkSpec == InitChunk /\ [][NextChunk]_vars

(***************************************************************************)
(* Properties.                                                             *)
(***************************************************************************)
Done == pc = "done"

ValidPath == req.path \in valid_paths

HeaderGiven == req.signature_header.present /\ req.signature_header.v # <<>>

\* the received header equals 'sha256=' + hex digest of the bytes read
HeaderMatchesBody ==
    /\ bodyRead
    /\ req.signature_header.present
    /\ req.signature_header.v = <<"sha256=">> \o HexDigest(Hmac(SECRET_TOKEN, body))

Parsed == data.t # "unset"

CallsOf(kind) == {i \in 1..Len(calls) : calls[i].kind = kind}

NoSideEffects == calls = <<>> /\ sleeps = 0

RejectCodes == {400, 403, 404, 413}

DeclaredOversize == req.cl.kind = "int" /\ req.cl.n > MAX_CONTENT_LENGTH

\* the event decoded to an object whose repository, release and sender
\* are objects (or absent)
WellFormedEvent ==
    /\ data.t = "obj"
    /\ IsDict(Get(data.v, "repository", <<>>))
    /\ IsDict(Get(data.v, "release", <<>>))
    /\ IsDict(Get(data.v, "sender", <<>>))

EventAction == Get(data.v, "action", "None")

\* C1: a payload is decoded, and anything acted on, only when the received
\* X-Hub-Signature-256 header equals 'sha256=' + the hex HMAC of exactly the
\* bytes read from the request; no state has a parsed payload, an outbound
\* call or a delay without that.
C1_VerifyBeforeParse ==
    (Parsed \/ calls # <<>> \/ sleeps > 0 \/ pc \in {"Parse", "Filter", "Notify", "Resolve"})
        => (HeaderMatchesBody /\ body = Take(req.sent, content_length))

C1_Witness == Parsed /\ body # <<>> /\ HeaderMatchesBody /\ calls # <<>>

\* C2: a request rejected with send_error(400), (403), (404) or (413) has
\* made no outbound call (no sendMessage, sendDocument, release query or
\* download) and no delay, and that status is its only one.
C2_RejectedNoOutbound ==
    (\E i \in 1..Len(statuses) : statuses[i] \in RejectCodes)
        => (NoSideEffects /\ Len(statuses) = 1 /\ Done)

C2_Witness ==
    /\ Done /\ statuses = <<400>> /\ HeaderMatchesBody /\ calls = <<>>

\* C3: an authenticated, well-formed event whose action is not 'published'
\* never causes an outbound call or a delay, and is answered 200 with body
\* 'OK'.
C3_IgnoredActionNoSideEffects ==
    (WellFormedEvent /\ EventAction # "published")
        => /\ NoSideEffects
           /\ Done => (statuses = <<200>> /\ wfile = <<"HTTP 200", "OK">>)
           /\ ~Done => (statuses = <<>> /\ wfile = <<>>)

C3_Witness ==
    /\ Done /\ WellFormedEvent /\ EventAction = "created" /\ statuses = <<200>>

\* C4 as stated: every request that passed the path check, the size guard
\* and authentication is answered 200 'OK'.
C4_Original ==
    (Done /\ ValidPath /\ HeaderMatchesBody)
        => (statuses = <<200>> /\ wfile = <<"HTTP 200", "OK">>)

\* C4 amended: every request that passed the path check, the size guard and
\* authentication and whose body decodes to a well-formed event is answered
\* 200 'OK' and nothing else, whatever the outcomes of the outbound calls.
C4_AckWhateverDownstream ==
    (Done /\ ValidPath /\ HeaderMatchesBody /\ WellFormedEvent)
        => (statuses = <<200>> /\ wfile = <<"HTTP 200", "OK">>)

C4_Witness ==
    /\ Done /\ WellFormedEvent /\ statuses = <<200>>
    /\ \E i \in CallsOf("sendDocument") : calls[i].outcome = "raised"
    /\ \E i \in CallsOf("sendMessage") : ~calls[i].ok
    /\ \E i \in CallsOf("releaseQuery") : ~calls[i].ok
    /\ \E i \in CallsOf("download") : ~calls[i].ok

\* C5 as stated: a POST to a valid path whose declared Content-Length
\* exceeds the ceiling is rejected with send_error(413) without the body
\* being read, with or without a signature header.
C5_Original ==
    (Done /\ ValidPath /\ DeclaredOversize) => (statuses = <<413>> /\ ~bodyRead)

\* C5 amended: a POST to a valid path whose declared Content-Length exceeds
\* the ceiling never has its body read; it is rejected with send_error(413)
\* when it carries a non-empty signature header (valid or not), and with
\* send_error(403) when the header is missing or empty, since the header's
\* presence is tested first.
C5_SizeGuard ==
    (ValidPath /\ DeclaredOversize)
        => /\ ~bodyRead /\ ~Parsed /\ calls = <<>>
           /\ Done => statuses = <<IF HeaderGiven THEN 413 ELSE 403>>

C5_Witness ==
    /\ Done /\ ValidPath /\ DeclaredOversize /\ statuses = <<413>>
    /\ req.signature_header.v = <<"sha256=">> \o HexDigest(Hmac(SECRET_TOKEN, req.sent))

\* C6: a request on a valid path with a missing signature header, a
\* zero-length body, or a header that differs from the computed digest is
\* rejected with send_error(403) and never parsed.
C6_FailsClosed ==
    (Done /\ ValidPath
       /\ (~HeaderGiven \/ (bodyRead /\ (body = <<>> \/ ~HeaderMatchesBody))))
        => (statuses = <<403>> /\ ~Parsed)

SummarySegments ==
    Segments(Message(repo, release, sender), TELEGRAM_MAX_MESSAGE_LENGTH)

NoListingMatched ==
    \A k \in 1..Len(listings) :
        \A j \in 1..Len(listings[k].assets) :
            LET an == Get(listings[k].assets[j], "name", <<>>)
            IN  ~(listings[k].ok /\ AnyKernelSearch(an))

Contains(text, url) == \A u \in 1..Len(url) : \E k \in 1..Len(text) : text[k] = url[u]

\* C7: when none of the listings of a 'published' event holds a matching
\* name (empty listings and failed queries included), all
\* MAX_RETRY_ATTEMPTS attempts are made, nothing is raised, the last
\* outbound call is the one notice, which carries the release page URL and
\* follows the summary; there is no download and no sendDocument, and the
\* answer is 200.
C7_NoAssetNotice ==
    (Done /\ Len(listings) >= 1 /\ NoListingMatched)
        => /\ Len(listings) = MAX_RETRY_ATTEMPTS
           /\ statuses = <<200>> /\ ~raised
           /\ CallsOf("download") = {} /\ CallsOf("sendDocument") = {}
           /\ Cardinality(CallsOf("sendMessage")) = Len(SummarySegments) + 1
           /\ \A i \in 1..Len(SummarySegments) :
                calls[i].kind = "sendMessage" /\ calls[i].text = SummarySegments[i]
           /\ LET last == calls[Len(calls)]
              IN  /\ last.kind = "sendMessage"
                  /\ last.text[1] = "W"
                  /\ Contains(last.text, Get(release, "html_url", <<>>))

C7_Witness ==
    /\ Done /\ Len(listings) = MAX_RETRY_ATTEMPTS /\ NoListingMatched
    /\ \E k \in 1..Len(listings) : ~listings[k].ok
    /\ \E k \in 1..Len(listings) : listings[k].ok /\ listings[k].assets # <<>>
    /\ \E k \in 1..Len(calls) : calls[k].kind = "sendMessage" /\ \E j \in 1..Len(calls[k].text) : calls[k].text[j] = ReleaseUrl /\ calls[k].text[1] = "W"

Matched == matched_asset # None

\* the fallback messages among the calls
FallbackCalls == {i \in CallsOf("sendMessage") : calls[i].text[1] = "F"}

Fetched == content_bytes # None

\* the asset's name as the fallback shows it, and the link it shows
ShownName == LET n == Get(matched_asset, "name", <<>>) IN [i \in 1..Len(n) |-> EscapeChar(n[i])]

ShownLink ==
    LET b == Get(matched_asset, "browser_download_url", <<>>)
        a == Get(matched_asset, "url", <<>>)
    IN  IF b # <<>> THEN b ELSE IF a # <<>> THEN a ELSE <<"None">>

AssetUrls ==
    {u \in {Get(matched_asset, "browser_download_url", <<>>), Get(matched_asset, "url", <<>>)} :
        u # <<>>}

\* C8 as stated: at the end of the handling of a matched asset the recipient
\* has received the file, or else a fallback message with the asset name and
\* a download link of the asset, and never both.
C8_Original ==
    (Done /\ Matched)
        => /\ uploaded => FallbackCalls = {}
           /\ ~uploaded =>
                \E i \in FallbackCalls :
                    /\ calls[i].ok
                    /\ SubSeq(calls[i].text, 3, 2 + Len(ShownName)) = ShownName
                    /\ \E u \in AssetUrls : Contains(calls[i].text, u)

\* C8 amended: at the end of the handling of a matched asset either the
\* document was delivered (the last call is the one successful sendDocument)
\* and no fallback was sent, or it was not (no content from any download,
\* empty content, content over the ceiling, sendDocument failed or raised)
\* and the last call is the one fallback sendMessage, made once whether or
\* not it succeeds, carrying the escaped asset name and the asset's browser
\* URL, else its API URL, else the text 'None'.
C8_FileOrFallback ==
    (Done /\ Matched)
        => LET last == calls[Len(calls)]
               docs == CallsOf("sendDocument")
           IN  /\ Cardinality(docs) <= 1
               /\ uploaded <=> (\E i \in docs : calls[i].ok)
               /\ uploaded <=> (/\ Fetched /\ content_bytes.len > 0
                                /\ content_bytes.len <= TELEGRAM_MAX_UPLOAD_BYTES
                                /\ \E i \in docs : calls[i].outcome = "ok")
               /\ uploaded => (FallbackCalls = {} /\ last.kind = "sendDocument")
               /\ ~uploaded =>
                    /\ FallbackCalls = {Len(calls)}
                    /\ last.text = <<"F", "backtick">> \o ShownName
                                   \o <<"backtick", "\n", "\n", "M", "\n">> \o ShownLink

C8_Witness ==
    /\ Done /\ Matched /\ ~uploaded
    /\ \E i \in CallsOf("sendDocument") : calls[i].outcome = "failed"
    /\ \E i \in FallbackCalls : Contains(calls[i].text, BrowserUrl(4))

\* C9: content larger than TELEGRAM_MAX_UPLOAD_BYTES is never passed to
\* sendDocument and is not downloaded again: the download that fetched it is
\* the last one and the only successful one, and the handling ends with the
\* fallback message; content of exactly the ceiling is passed to
\* sendDocument.
C9_UploadCeiling ==
    /\ (Fetched /\ content_bytes.len > TELEGRAM_MAX_UPLOAD_BYTES)
         => /\ CallsOf("sendDocument") = {}
            /\ ~uploaded
            /\ LET d == CallsOf("download")
               IN  /\ {i \in d : calls[i].ok} = {CHOOSE m \in d : \A j \in d : j <= m}
                   /\ \A i \in d : calls[i].ok => calls[i].url = content_bytes.from
            /\ Done => FallbackCalls = {Len(calls)}
    /\ (Fetched /\ content_bytes.len = TELEGRAM_MAX_UPLOAD_BYTES
          /\ pc \in {"Fallback", "Respond", "done"})
         => \E i \in CallsOf("sendDocument") : calls[i].bytes = content_bytes

C9_Witness ==
    /\ Done /\ Fetched /\ content_bytes.len = TELEGRAM_MAX_UPLOAD_BYTES + 1
    /\ content_bytes.from = ApiUrl(4)
    /\ FallbackCalls # {}

\* C10: a failed release query counts as an empty listing for its attempt
\* only: it leaves no asset and no match, the loop goes on to the next
\* attempt unless it was the last one, and a match of a later attempt is
\* taken and processed for delivery.
C10_FailedQueryIsEmptyListing ==
    /\ \A k \in 1..Len(listings) :
         ~listings[k].ok =>
            /\ k = Len(listings) =>
                 /\ assets = <<>> /\ ~Matched
                 /\ k < MAX_RETRY_ATTEMPTS => pc = "Resolve"
                 /\ k = MAX_RETRY_ATTEMPTS => pc \in {"NoAsset", "Respond", "done"}
            /\ (Done /\ k < MAX_RETRY_ATTEMPTS) => Len(listings) > k
    /\ (Len(listings) >= 1 /\ listings[Len(listings)].ok
          /\ \E j \in 1..Len(listings[Len(listings)].assets) :
                AnyKernelSearch(Get(listings[Len(listings)].assets[j], "name", <<>>)))
         => /\ Matched
            /\ AnyKernelSearch(matched_asset.name)
            /\ \E j \in 1..Len(assets) : assets[j] = matched_asset
            /\ Done => (uploaded \/ FallbackCalls # {})

C10_Witness ==
    /\ Done /\ Matched /\ uploaded
    /\ Len(listings) = MAX_RETRY_ATTEMPTS
    /\ \A k \in 1..(MAX_RETRY_ATTEMPTS - 1) : ~listings[k].ok

\* the j-th asset of a listing has a non-empty name that matches the pattern
MatchAt(as, j) ==
    LET an == Get(as[j], "name", <<>>) IN an # <<>> /\ AnyKernelSearch(an)

HasMatch(l) == l.ok /\ \E j \in 1..Len(l.assets) : MatchAt(l.assets, j)

\* C11: at most one asset is forwarded per request: the first asset, in the
\* order of the listing, whose name matches 'any...kernel' (ignoring case)
\* in the first attempt whose listing holds a match.  No attempt is made
\* after that one, no other asset is selected, and every download and the
\* one sendDocument concern that asset only.
C11_FirstMatchOnly ==
    /\ Len(listings) = attempt
    /\ \A k \in 1..(Len(listings) - 1) : ~HasMatch(listings[k])
    /\ Matched <=> (listings # <<>> /\ HasMatch(listings[Len(listings)]))
    /\ Matched =>
         LET as == listings[Len(listings)].assets
         IN  \E j \in 1..Len(as) :
               /\ MatchAt(as, j)
               /\ \A i \in 1..(j - 1) : ~MatchAt(as, i)
               /\ matched_asset = as[j]
    /\ \A i \in CallsOf("download") : Matched /\ calls[i].url \in AssetUrls
    /\ Cardinality(CallsOf("sendDocument")) <= 1 /\ Cardinality(FallbackCalls) <= 1
    /\ \A i \in CallsOf("sendDocument") :
         /\ Matched
         /\ calls[i].filename = Get(matched_asset, "name", <<>>)
         /\ calls[i].bytes.from \in AssetUrls

C11_Witness ==
    /\ Done /\ uploaded /\ Len(listings) >= 2
    /\ matched_asset.name = StarName
    /\ listings[Len(listings)].assets[2].name = AnyKernelName
    /\ \E i \in CallsOf("sendDocument") : calls[i].bytes.from = ApiUrl(6)

\* the calls to the messaging API, in order
MessagingCalls == SelectSeq(calls, LAMBDA c : c.kind \in {"sendMessage", "sendDocument"})

\* C12: for an authenticated 'published' event whose summary fits the text
\* limit and whose release lists a matching asset that is downloaded with a
\* content within the upload ceiling and uploaded successfully, the calls to
\* the messaging API are exactly one sendMessage with the summary followed
\* by one sendDocument with the downloaded bytes of that asset; there is no
\* fallback and no no-asset notice, and the answer is 200 'OK'.
C12_SuccessPath ==
    (/\ Done /\ HeaderMatchesBody /\ WellFormedEvent /\ EventAction = "published"
     /\ Len(Message(repo, release, sender)) <= TELEGRAM_MAX_MESSAGE_LENGTH
     /\ Matched /\ Fetched
     /\ content_bytes.len > 0 /\ content_bytes.len <= TELEGRAM_MAX_UPLOAD_BYTES
     /\ \E i \in CallsOf("sendDocument") : calls[i].outcome = "ok")
        => /\ Len(MessagingCalls) = 2
           /\ MessagingCalls[1].kind = "sendMessage"
           /\ MessagingCalls[1].text = Message(repo, release, sender)
           /\ MessagingCalls[2].kind = "sendDocument"
           /\ MessagingCalls[2].bytes = content_bytes
           /\ MessagingCalls[2].bytes.from \in AssetUrls
           /\ MessagingCalls[2].filename = matched_asset.name
           /\ calls[1] = MessagingCalls[1] /\ calls[Len(calls)] = MessagingCalls[2]
           /\ statuses = <<200>> /\ wfile = <<"HTTP 200", "OK">> /\ ~raised

C12_Witness ==
    /\ Done /\ uploaded /\ attempt = 1 /\ statuses = <<200>>
    /\ Len(Message(repo, release, sender)) <= TELEGRAM_MAX_MESSAGE_LENGTH
    /\ Len(calls) = 4
    /\ calls[3].kind = "download" /\ calls[3].ok
    /\ calls[4].kind = "sendDocument" /\ calls[4].bytes.from = ApiUrl(4)

\* C13: for a text longer than the limit, every segment passed to
\* sendMessage has at most TELEGRAM_MAX_MESSAGE_LENGTH characters.
C13_SegmentsWithinLimit ==
    (Done /\ Len(req.text) > TELEGRAM_MAX_MESSAGE_LENGTH)
        => \A i \in 1..Len(calls) : Len(calls[i].text) <= TELEGRAM_MAX_MESSAGE_LENGTH

\* the i-th segment sent, without its 'part i of n' marker
Unmarked(i) ==
    IF Len(calls) > 1 THEN Drop(calls[i].text, Len(Prefix(i, Len(calls))))
    ELSE calls[i].text

\* C14: for a text longer than the limit, the segments sent, with their
\* markers removed and concatenated in order, are the text.
C14_RoundTrip ==
    (Done /\ Len(req.text) > TELEGRAM_MAX_MESSAGE_LENGTH)
        => Concat([i \in 1..Len(calls) |-> Unmarked(i)]) = req.text

\* C15: a text of at most TELEGRAM_MAX_MESSAGE_LENGTH characters is sent by
\* exactly one sendMessage call, unchanged and without a marker.
C15_ShortTextSentWhole ==
    (Done /\ Len(req.text) <= TELEGRAM_MAX_MESSAGE_LENGTH)
        => /\ Len(calls) = 1
           /\ calls[1].kind = "sendMessage"
           /\ calls[1].text = req.text

C15_Witness ==
    /\ Done /\ Len(req.text) = TELEGRAM_MAX_MESSAGE_LENGTH
    /\ req.text[Len(req.text)] = "\n"
    /\ Len(calls) = 1 /\ calls[1].text = req.text

\* the fixed labels of the messages are single elements here, so an asterisk
\* in a text sent comes from an event or asset field that was embedded
\* without escaping (safe_markdown turns it into U+00D7)
RawReserved(t) == \E k \in 1..Len(t) : t[k] = "*"

\* C16: every text taken from an event or asset field (repository name,
\* tag, release name, login, timestamp, notes body, asset name) that
\* appears in a text passed to sendMessage or in a sendDocument caption has
\* been passed through safe_markdown: no text sent and no caption holds a
\* reserved character of a field.
C16_UntrustedFieldsEscaped ==
    \A i \in 1..Len(calls) :
        /\ calls[i].kind = "sendMessage" => ~RawReserved(calls[i].text)
        /\ calls[i].kind = "sendDocument" => ~RawReserved(calls[i].caption)

Queries == Cardinality(CallsOf("releaseQuery"))

\* the event carries a release id or a tag name to query the release by
HasIdentifier ==
    Get(release, "id", 0) # 0 \/ Get(release, "tag_name", <<"?">>) # <<>>

\* C17 as stated: a 'published' request that reaches the retry loop queries
\* the release API at least once and at most MAX_RETRY_ATTEMPTS times, and
\* the number of delays is the number of queries minus one.
C17_Original ==
    (Done /\ attempt >= 1)
        => /\ Queries >= 1 /\ Queries <= MAX_RETRY_ATTEMPTS
           /\ sleeps = Queries - 1

\* C17 amended: the retry loop makes at least one and at most
\* MAX_RETRY_ATTEMPTS attempts; each attempt issues one fresh release query
\* when the event carries a release id or a tag name, and none otherwise;
\* the loop stops at the first attempt whose listing holds a match; a delay
\* is taken only between an unmatched attempt and the next one, so the
\* delays are the attempts minus one and none follows a match or the last
\* attempt.
C17_RetryPacing ==
    /\ attempt <= MAX_RETRY_ATTEMPTS /\ Len(listings) = attempt
    /\ Queries = (IF HasIdentifier THEN attempt ELSE 0)
    /\ \A k \in 1..(Len(listings) - 1) : ~HasMatch(listings[k])
    /\ pc = "Resolve" =>
         /\ sleeps = attempt /\ attempt < MAX_RETRY_ATTEMPTS
         /\ attempt >= 1 => ~HasMatch(listings[attempt])
    /\ (pc # "Resolve" /\ attempt >= 1) =>
         /\ sleeps = attempt - 1
         /\ HasMatch(listings[attempt]) \/ attempt = MAX_RETRY_ATTEMPTS
    /\ (Done /\ ~raised /\ statuses = <<200>> /\ WellFormedEvent /\ EventAction = "published")
         => attempt >= 1

C17_Witness ==
    /\ Done /\ Matched /\ Queries = MAX_RETRY_ATTEMPTS - 1
    /\ sleeps = MAX_RETRY_ATTEMPTS - 2
    /\ ~listings[1].ok /\ listings[2].ok

\* C18: the content of the matched asset is acquired in one ordered pass:
\* the API URL is requested first, the browser URL only after the API
\* request failed or when the asset has no API URL, nothing is requested
\* after a successful download, and no URL is requested more than once.
C18_SingleOrderedPass ==
    LET d == CallsOf("download")
    IN  /\ \A i \in d : calls[i].via = "api" => \A j \in d : j >= i
        /\ \A i \in d : calls[i].ok => \A j \in d : j <= i
        /\ \A i \in d : \A j \in d :
              (i < j /\ calls[j].via = "browser") =>
                  (calls[i].via = "api" /\ ~calls[i].ok)
        /\ \A i \in d : \A j \in d : i # j => calls[i].url # calls[j].url

StatusCodes == {200, 400, 403, 404, 413, 500}

\* the status lines written to the connection
SentStatusLines ==
    SelectSeq(wfile, LAMBDA x : \E c \in StatusCodes : x = "HTTP " \o ToString(c))

\* C19: every handled POST produces exactly one HTTP status line, one of
\* 200, 400, 403, 404, 413, 500: a second one is never written, a fault
\* while the 200 acknowledgment is written included, and the handler never
\* ends without one.
C19_ExactlyOneStatus ==
    /\ Len(SentStatusLines) <= 1
    /\ Done => Len(SentStatusLines) = 1

\* the steps of asset resolution and delivery
Resolving == pc \in {"Resolve", "NoAsset", "DownloadApi", "DownloadBrowser", "Upload", "Fallback"}

CallBounds ==
    /\ Queries <= MAX_RETRY_ATTEMPTS
    /\ sleeps <= MAX_RETRY_ATTEMPTS - 1
    /\ Cardinality(CallsOf("download")) <= 2
    /\ Cardinality(CallsOf("sendDocument")) <= 1
    /\ Cardinality(CallsOf("sendMessage"))
         <= (IF WellFormedEvent THEN Len(SummarySegments) ELSE 0) + 1
    /\ Cardinality(FallbackCalls) + Cardinality({i \in CallsOf("sendMessage") : calls[i].text[1] = "W"}) <= 1

\* the most steps do_POST can still take: its position, and in the retry
\* loop the attempts that are left
StepsLeft ==
    CASE pc = "PathCheck" -> 16 + MAX_RETRY_ATTEMPTS
      [] pc = "SignatureHeader" -> 15 + MAX_RETRY_ATTEMPTS
      [] pc = "SizeGuard" -> 14 + MAX_RETRY_ATTEMPTS
      [] pc = "Authenticate" -> 13 + MAX_RETRY_ATTEMPTS
      [] pc = "Parse" -> 12 + MAX_RETRY_ATTEMPTS
      [] pc = "Filter" -> 11 + MAX_RETRY_ATTEMPTS
      [] pc = "Notify" -> 10 + MAX_RETRY_ATTEMPTS
      [] pc = "Resolve" -> 9 + MAX_RETRY_ATTEMPTS - attempt
      [] pc = "DownloadApi" -> 6
      [] pc = "DownloadBrowser" -> 5
      [] pc = "Upload" -> 4
      [] pc = "Fallback" -> 3
      [] pc = "NoAsset" -> 2
      [] pc = "Respond" -> 1
      [] pc = "done" -> 0

\* a step of do_POST is possible (at Notify the step is the summary's sends
\* or the answer to an exception, whatever the event)
CanStep ==
    \/ pc = "Notify"
    \/ ENABLED PathCheck \/ ENABLED SignatureHeader \/ ENABLED SizeGuard
    \/ ENABLED Authenticate \/ ENABLED Parse \/ ENABLED Filter
    \/ ENABLED QueryAttempt \/ ENABLED NoAsset
    \/ ENABLED DownloadApi \/ ENABLED DownloadBrowser \/ ENABLED Upload
    \/ ENABLED Fallback \/ ENABLED Respond

====
